---- MODULE Spec2Model ----
(***************************************************************************)
(* A model of the VL53L1X time-of-flight sensor driver (src/lib.rs).       *)
(*                                                                         *)
(* The driver talks to the sensor over a register-addressed two-wire bus.  *)
(* The model keeps the driver's own state (the configuration blob, the     *)
(* range offset, the position inside `new` and inside `wait_data_ready`),  *)
(* every bus transaction a call issues, and the sensor as a register file. *)
(* Integer arithmetic keeps the width of the Rust types: an overflow       *)
(* panics in a build with overflow checks and wraps in one without.        *)
(***************************************************************************)
EXTENDS Integers, Sequences, FiniteSets, TLC

VARIABLES
    pc,            \* position of the caller's thread
    checked,       \* TRUE: the build has overflow checks (panic), FALSE: it wraps
    regs,          \* the sensor's stored registers 0x0000..0x0087
    gpio,          \* the sensor's GPIO/status register (0x0031) when last read
    config,        \* Vl53l1x.config, the calibration blob
    range_offset,  \* Vl53l1x.range_offset
    attempts,      \* local `attempts` of wait_for_firmware_status_ready
    steps,         \* the bring-up steps of `new` that have returned Ok
    log,           \* bus transactions and sleeps of the current (or last) function
    result,        \* what the last call returned
    calls          \* number of public operations called on the handle

vars == <<pc, checked, regs, gpio, config, range_offset, attempts, steps, log, result, calls>>

----------------------------------------------------------------------------
(* Bounds of the model.                                                    *)

\* Public operations called on one handle in one behaviour.
MaxCalls == 2

\* Rectangle coordinates drawn for the ROI functions: 0..MaxCoord.
MaxCoord == 15

\* Calls on the handle in SpecPersist.
MaxPersistCalls == 3

----------------------------------------------------------------------------
(* Register map, enum Vl53l1xReg, and the constants of the driver.         *)

IdentificationModelId == 271                                  \* 0x010f
SoftResetReg == 0                                             \* 0x0000
FirmwareSystemStatus == 229                                   \* 0x00e5
PadI2cHvExtsupConfig == 46                                    \* 0x002e
GpioTioHvStatus == 49                                         \* 0x0031
ResultFinalCrosstalkCorrectedRangeMmSd0 == 150                \* 0x0096
ResultPeakSignalCountRateCrosstalkCorrectedMcpsSd0 == 152     \* 0x0098
RangeConfigVcselPeriodA == 96                                 \* 0x0060
RangeConfigVcselPeriodB == 99                                 \* 0x0063
RangeConfigValidPhaseHigh == 105                              \* 0x0069
RoiConfigUserRoiCentreSpad == 127                             \* 0x007f
RoiConfigUserRoiRequestedGlobalXySize == 128                  \* 0x0080
SdConfigWoiSd0 == 120                                         \* 0x0078
SdConfigWoiSd1 == 121                                         \* 0x0079
SdConfigInitialPhaseSd0 == 122                                \* 0x007a
SdConfigInitialPhaseSd1 == 123                                \* 0x007b

MODEL_ID == 60108                                             \* 0xeacc

\* const CONFIG: [u8; 135]
CONFIG ==
   <<
       41,   2,  16,   0,  40, 188, 122, 129,
      128,   7, 149,   0, 237, 255, 247, 253,
      158,  14,   0,  16,   1,   0,   0,   0,
        0,   0,   0,   0,   0,   0,  52,   0,
       40,   0,  13,  10,   0,   0,   0,   0,
        0,   0,   0,   0,   0,   0,   0,  17,
        2,   0,   2,   8,   0,   8,  16,   1,
        1,   0,   0,   0,   0, 255,   0,   2,
        0,   0,   0,   0,   0,  32,  11,   0,
        0,   2,  10,  33,   0,   0,   2,   0,
        0,   0,   0, 200,   0,   0,  56, 255,
        1,   0,   0,   0,   0,   0, 145,  15,
        0, 165,  13,   0, 128,   0,  12,   8,
      184,   0,   0,   0,   0,  14,  16,   0,
        1,   0,   0,   0,   0,   0,   1,  15,
       13,  14,  14,   1,   0,   2, 199, 255,
      139,   0,   0,   0,   1,   1,  64
   >>

\* get_trim_resistors: for i in 0..36
TrimCount == 36

\* wait_for_firmware_status_ready: if attempts > 100
MaxAttempts == 100

\* start_measurement: the blob goes to address 0x0001
ConfigBase == 1

\* The last register a bulk write of the blob reaches: 0x0001 + 135 - 1 = 0x0087.
RegTop == ConfigBase + Len(CONFIG) - 1

----------------------------------------------------------------------------
(* Fixed-width arithmetic.                                                 *)

U8(x) == x % 256
U16(x) == x % 65536
InU8(x) == x >= 0 /\ x <= 255
InU16(x) == x >= 0 /\ x <= 65535

RECURSIVE BitAnd(_, _)
BitAnd(a, b) ==
    IF a = 0 \/ b = 0 THEN 0
    ELSE (a % 2) * (b % 2) + 2 * BitAnd(a \div 2, b \div 2)

RECURSIVE BitOr(_, _)
BitOr(a, b) ==
    IF a = 0 THEN b
    ELSE IF b = 0 THEN a
    ELSE (IF a % 2 = 1 \/ b % 2 = 1 THEN 1 ELSE 0) + 2 * BitOr(a \div 2, b \div 2)

\* x >> n and x << n on a u8 (bits shifted out of a u8 are lost, in every build)
Shr(x, n) == x \div (2 ^ n)
Shl8(x, n) == U8(x * (2 ^ n))

\* BigEndian::read_u16
ReadU16BE(b) == b[1] * 256 + b[2]

\* addr_to_bytes
addr_to_bytes(addr) == << Shr(addr, 8), BitAnd(addr, 255) >>

----------------------------------------------------------------------------
(* Bus transactions.  A call's transactions are recorded in `log`, in the   *)
(* order issued: t is "w" (i2c_dev.write), "r" (i2c_dev.read) or "sleep"    *)
(* (thread::sleep, n in microseconds); n is the number of bytes sent or    *)
(* asked for; st is "ok" or the transport's error.                         *)

W(bytes) == [t |-> "w", n |-> Len(bytes), data |-> bytes, st |-> "ok"]
R(bytes) == [t |-> "r", n |-> Len(bytes), data |-> bytes, st |-> "ok"]
Sleep(us) == [t |-> "sleep", n |-> us, data |-> <<>>, st |-> "ok"]

\* txs as recorded in `log`: each transaction names the function that issued it.
Tag(by, txs) ==
    [i \in 1..Len(txs) |->
        [by |-> by, t |-> txs[i].t, n |-> txs[i].n, data |-> txs[i].data,
         st |-> txs[i].st]]

\* The errors the transport may report (LinuxI2CError).
Errors == {"EIO", "ENXIO"}

\* The transactions of a sequence that the transport may fail.
FailPoints(txs) == {i \in 1..Len(txs) : txs[i].t # "sleep"}

\* How the transport may treat txs: no failure, or the k-th fails with e.
Failures(txs) == { <<0, "ok">> } \cup (FailPoints(txs) \X Errors)

\* Issue with the failed transaction tried once more before giving up.
IssueRetry(txs, k, e) ==
    IF k = 0 THEN txs
    ELSE LET failed == [t |-> txs[k].t, n |-> txs[k].n,
                        data |-> IF txs[k].t = "r" THEN <<>> ELSE txs[k].data,
                        st |-> e]
         IN  SubSeq(txs, 1, k - 1) \o << failed, failed >>

\* The `?` after every i2c_dev.write / i2c_dev.read: the transactions of txs
\* really issued when the k-th fails with error e (k = 0: none fails).  The
\* failed transaction is the last one: the function returns at once.
Issue(txs, k, e) ==
    IF k = 0 THEN txs
    ELSE SubSeq(txs, 1, k - 1) \o
         << [t |-> txs[k].t, n |-> txs[k].n,
             data |-> IF txs[k].t = "r" THEN <<>> ELSE txs[k].data,
             st |-> e] >>

\* The buffers of the read helpers: [0u8, 1] and [0u8, 2] are both arrays of
\* two elements.
Buf1Len == 2
Buf2Len == 2

i2c_read_u8(addr, bytes) == << W(addr_to_bytes(addr)), R(bytes) >>
i2c_read_u16(addr, bytes) == << W(addr_to_bytes(addr)), R(bytes) >>
i2c_write_u8(addr, val) ==
    << W(<< Shr(addr, 8), BitAnd(addr, 255), val >>) >>
i2c_write_u16(addr, val) ==
    << W(<< Shr(addr, 8), BitAnd(addr, 255), Shr(val, 8), BitAnd(val, 255) >>) >>

----------------------------------------------------------------------------
(* The sensor: a register file.  A write of more than two bytes stores its *)
(* payload at consecutive addresses starting at the prefixed address; a    *)
(* read returns consecutive registers starting at the address last sent.   *)
(* The model-ID, firmware-status, GPIO/status and result registers are     *)
(* driven by the hardware: a read of one returns what the hardware holds   *)
(* there at that moment.                                                   *)

StoreTx(r, tx) ==
    IF tx.t = "w" /\ tx.st = "ok" /\ tx.n > 2
    THEN LET a == ReadU16BE(tx.data)
         IN  [x \in DOMAIN r |->
                 IF x >= a /\ x < a + tx.n - 2 THEN tx.data[x - a + 3] ELSE r[x]]
    ELSE r

RECURSIVE Store(_, _)
Store(r, txs) ==
    IF txs = <<>> THEN r ELSE Store(StoreTx(r, Head(txs)), Tail(txs))

\* n consecutive registers of the register file r, from address a
RegRead(r, a, n) == [i \in 1..n |-> r[a + i - 1]]

\* What the registers may hold when the driver connects: the documented
\* defaults, or a part with other trim values.
SensorImages ==
    { [a \in 0..RegTop |-> IF a = 0 THEN 0 ELSE CONFIG[a]],
      [a \in 0..RegTop |-> (a * 7 + 3) % 256] }

\* Values of the sensor's volatile registers.
ModelIds == {MODEL_ID, 0}
FwStatusValues == {1, 0, 258}
GpioValues == {3, 2, 7}
RangeOffsets == {0, 130}

----------------------------------------------------------------------------
(* Results of calls: the operation, its argument, and what it returned:    *)
(* Ok(value), Err(transport error), or a panic, which aborts the process.  *)

\* The value is held under a name that tells what it is: the operation that
\* returned it, "err" for a transport error, "panic" for a panic message.
Ok(op, arg, v) == [op |-> op, arg |-> arg, kind |-> "ok", val |-> (op :> v)]
Err(op, arg, e) == [op |-> op, arg |-> arg, kind |-> "err", val |-> ("err" :> e)]
Panic(op, arg, msg) ==
    [op |-> op, arg |-> arg, kind |-> "panic", val |-> ("panic" :> msg)]

\* No call has returned since the caller last dropped a result.
NoResult == [op |-> "none", arg |-> <<>>, kind |-> "none", val |-> ("none" :> <<>>)]

\* The steps of Vl53l1x::new, in the order of its body.
BringUpOrder ==
    << "check_model_id", "soft_reset", "wait_for_firmware_status_ready",
       "write_i2c_28v", "get_trim_resistors" >>

Init ==
    /\ pc = "start"
    /\ checked \in BOOLEAN
    /\ regs \in SensorImages
    /\ gpio = 3
    /\ config = <<>>
    /\ range_offset = 0
    /\ attempts = 0
    /\ steps = <<>>
    /\ log = <<>>
    /\ result = NoResult
    /\ calls = 0

----------------------------------------------------------------------------
(* Vl53l1x::new, one action per bring-up step.  `log` holds the            *)
(* transactions of the step in progress (or of the last one finished),     *)
(* `steps` the steps that returned Ok, in the order they did.              *)

\* LinuxI2CDevice::new(...)? and the struct literal
New ==
    /\ pc = "start"
    /\ \E offset \in RangeOffsets, e \in Errors \cup {"ok"} :
         /\ config' = CONFIG
         /\ range_offset' = offset
         /\ IF e = "ok"
            THEN pc' = "check_model_id" /\ UNCHANGED result
            ELSE pc' = "failed" /\ result' = Err("new", <<>>, e)
    /\ UNCHANGED <<checked, regs, gpio, attempts, steps, log, calls>>

check_model_id_txs(id) ==
    << W(addr_to_bytes(IdentificationModelId)),
       R(<< Shr(id, 8), BitAnd(id, 255) >>) >>

\* check_model_id without its comparison.
ModelIdUnchecked(test_model_id) == FALSE

\* test_model_id != MODEL_ID
ModelIdMismatch(test_model_id) == test_model_id # MODEL_ID

CheckModelId ==
    /\ pc = "check_model_id"
    /\ \E id \in ModelIds : \E f \in Failures(check_model_id_txs(id)) :
         LET t == Issue(check_model_id_txs(id), f[1], f[2]) IN
         /\ log' = Tag("check_model_id", t)
         /\ IF f[1] # 0
            THEN pc' = "failed" /\ result' = Err("new", <<>>, f[2])
                 /\ UNCHANGED steps
            ELSE IF ModelIdMismatch(ReadU16BE(t[2].data))
            THEN pc' = "aborted"
                 /\ result' = Panic("new", <<>>, "Unexpected model_id")
                 /\ UNCHANGED steps
            ELSE pc' = "soft_reset" /\ UNCHANGED result
                 /\ steps' = Append(steps, "check_model_id")
    /\ UNCHANGED <<checked, regs, gpio, config, range_offset, attempts, calls>>

\* soft_reset with the two values the other way round.
soft_reset_swapped ==
    << W(<< Shr(SoftResetReg, 8), BitAnd(SoftResetReg, 255), 1 >>),
       Sleep(100),
       W(<< Shr(SoftResetReg, 8), BitAnd(SoftResetReg, 255), 0 >>),
       Sleep(200) >>

soft_reset_txs ==
    << W(<< Shr(SoftResetReg, 8), BitAnd(SoftResetReg, 255), 0 >>),
       Sleep(100),
       W(<< Shr(SoftResetReg, 8), BitAnd(SoftResetReg, 255), 1 >>),
       Sleep(200) >>

SoftReset ==
    /\ pc = "soft_reset"
    /\ \E f \in Failures(soft_reset_txs) :
         LET t == Issue(soft_reset_txs, f[1], f[2]) IN
         /\ log' = Tag("soft_reset", t)
         /\ regs' = Store(regs, t)
         /\ IF f[1] # 0
            THEN pc' = "failed" /\ result' = Err("new", <<>>, f[2])
                 /\ UNCHANGED steps
            ELSE pc' = "wait_for_firmware_status_ready" /\ UNCHANGED result
                 /\ steps' = Append(steps, "soft_reset")
    /\ attempts' = 0
    /\ UNCHANGED <<checked, gpio, config, range_offset, calls>>

firmware_status_txs(status) ==
    << W(addr_to_bytes(FirmwareSystemStatus)),
       R(<< Shr(status, 8), BitAnd(status, 255) >>) >>

\* The test of bit 0 the other way round.
FirmwareBusyInverted(system_status) == BitAnd(system_status, 1) = 0

\* system_status & 0x0001 != 0
FirmwareBusy(system_status) == BitAnd(system_status, 1) # 0

\* attempts > 100
TimedOut(n) == n > MaxAttempts

\* The transactions of `by` recorded so far (none when `log` is another's).
Cur(by) == IF log # <<>> /\ log[1].by = by THEN log ELSE <<>>

\* One turn of the loop of wait_for_firmware_status_ready.
WaitForFirmwareStatusReady ==
    /\ pc = "wait_for_firmware_status_ready"
    /\ \E status \in FwStatusValues : \E f \in Failures(firmware_status_txs(status)) :
         LET t == Issue(firmware_status_txs(status), f[1], f[2])
             sofar == Cur("wait_for_firmware_status_ready")
         IN
         IF f[1] # 0
         THEN /\ log' = sofar \o Tag("wait_for_firmware_status_ready", t)
              /\ pc' = "failed" /\ result' = Err("new", <<>>, f[2])
              /\ UNCHANGED <<attempts, steps>>
         ELSE IF FirmwareBusy(ReadU16BE(t[2].data))
         THEN /\ attempts' = attempts + 1
              /\ UNCHANGED steps
              /\ IF TimedOut(attempts + 1)
                 THEN /\ log' = sofar \o Tag("wait_for_firmware_status_ready", t)
                      /\ pc' = "aborted"
                      /\ result' = Panic("new", <<>>, "Sensor timed out.")
                 ELSE /\ log' = sofar \o Tag("wait_for_firmware_status_ready",
                                            t \o << Sleep(10000) >>)
                      /\ UNCHANGED <<pc, result>>
         ELSE /\ log' = sofar \o Tag("wait_for_firmware_status_ready", t)
              /\ pc' = "write_i2c_28v"
              /\ steps' = Append(steps, "wait_for_firmware_status_ready")
              /\ attempts' = 0          \* the local goes out of scope
              /\ UNCHANGED result
    /\ UNCHANGED <<checked, regs, gpio, config, range_offset, calls>>

\* (reg_value & 0xfe) | 0x01
Voltage28v(reg_value) == BitOr(BitAnd(reg_value, 254), 1)

write_i2c_28v_txs(bytes) ==
    i2c_read_u16(PadI2cHvExtsupConfig, bytes)
    \o i2c_write_u16(PadI2cHvExtsupConfig, Voltage28v(ReadU16BE(bytes)))

WriteI2c28v ==
    /\ pc = "write_i2c_28v"
    /\ LET txs == write_i2c_28v_txs(RegRead(regs, PadI2cHvExtsupConfig, Buf2Len)) IN
       \E f \in Failures(txs) :
         LET t == Issue(txs, f[1], f[2]) IN
         /\ log' = Tag("write_i2c_28v", t)
         /\ regs' = Store(regs, t)
         /\ IF f[1] # 0
            THEN pc' = "failed" /\ result' = Err("new", <<>>, f[2])
                 /\ UNCHANGED steps
            ELSE pc' = "get_trim_resistors" /\ UNCHANGED result
                 /\ steps' = Append(steps, "write_i2c_28v")
    /\ UNCHANGED <<checked, gpio, config, range_offset, attempts, calls>>

\* for i in 0..36 { self.config[i] = i2c_read_u8(dev, (i + 1) as u16)? }
\* as one sequence: transactions 2i+1, 2i+2 belong to turn i.
get_trim_resistors_txs(r) ==
    [j \in 1..(2 * TrimCount) |->
        IF j % 2 = 1
        THEN W(addr_to_bytes((j + 1) \div 2))
        ELSE R(RegRead(r, j \div 2, Buf1Len))]

\* get_trim_resistors storing the value of turn i at index i + 1.
TrimmedConfigShifted(cfg, t) ==
    [i \in 1..Len(cfg) |->
        IF i >= 2 /\ 2 * (i - 1) <= Len(t) /\ t[2 * (i - 1)].st = "ok"
        THEN t[2 * (i - 1)].data[1]
        ELSE cfg[i]]

\* config after the transactions t of get_trim_resistors: every completed
\* read stored its first byte.
TrimmedConfig(cfg, t) ==
    [i \in 1..Len(cfg) |->
        IF 2 * i <= Len(t) /\ t[2 * i].st = "ok" THEN t[2 * i].data[1] ELSE cfg[i]]

GetTrimResistors ==
    /\ pc = "get_trim_resistors"
    /\ \E f \in Failures(get_trim_resistors_txs(regs)) :
         LET t == Issue(get_trim_resistors_txs(regs), f[1], f[2]) IN
         /\ log' = Tag("get_trim_resistors", t)
         /\ config' = TrimmedConfig(config, t)
         /\ IF f[1] # 0
            THEN pc' = "failed" /\ result' = Err("new", <<>>, f[2])
                 /\ UNCHANGED steps
            ELSE pc' = "idle" /\ result' = Ok("new", <<>>, <<>>)
                 /\ steps' = Append(steps, "get_trim_resistors")
    /\ UNCHANGED <<checked, regs, gpio, range_offset, attempts, calls>>

----------------------------------------------------------------------------
(* Public operations on the handle.  A plan is what a call does when the   *)
(* transport never fails: the transactions it issues, whether it then      *)
(* panics, and the value it returns otherwise.                             *)

Plan(txs, v) == [txs |-> txs, panic |-> FALSE, val |-> v]
PanicAfter(txs, msg) == [txs |-> txs, panic |-> TRUE, val |-> msg]

\* A call of `op` with argument `arg` following plan p, the k-th transaction
\* failing with e (k = 0: none).  A `?` returns the error at once.
Call(op, arg, p, k, e) ==
    LET t == Issue(p.txs, k, e) IN
    /\ pc = "idle"
    /\ calls' = calls + 1
    /\ log' = Tag(op, t)
    /\ regs' = Store(regs, t)
    /\ IF k # 0
       THEN pc' = "idle" /\ result' = Err(op, arg, e)
       ELSE IF p.panic
       THEN pc' = "aborted" /\ result' = Panic(op, arg, p.val)
       ELSE pc' = "idle" /\ result' = Ok(op, arg, p.val)
    /\ UNCHANGED <<checked, gpio, config, range_offset, attempts, steps>>

\* Every way the transport may treat the plan p.
Calls(op, arg, p) ==
    \E f \in Failures(p.txs) : Call(op, arg, p, f[1], f[2])

\* start_measurement with the two inserts the other way round.
start_measurement_low_first ==
    Plan(<< W(<< BitAnd(ConfigBase, 255), Shr(ConfigBase, 8) >> \o config) >>, <<>>)

\* config.insert(0, 0x01); config.insert(0, 0x00); i2c_dev.write(&config)
start_measurement_plan ==
    Plan(<< W(<< Shr(ConfigBase, 8), BitAnd(ConfigBase, 255) >> \o config) >>, <<>>)

StartMeasurement ==
    Calls("start_measurement", <<>>, start_measurement_plan)

\* Ok(val != 0x03)
DataReady(val) == val # 3

\* The GPIO/status register is read as the hardware holds it: gpio.
check_data_ready_plan ==
    LET bytes == << gpio >> \o RegRead(regs, GpioTioHvStatus + 1, Buf1Len - 1) IN
    Plan(i2c_read_u8(GpioTioHvStatus, bytes), DataReady(bytes[1]))

CheckDataReady == Calls("check_data_ready", <<>>, check_data_ready_plan)

\* wait_data_ready with `if` for `while`: it sleeps once and returns.
WaitTurnNoLoop ==
    \E f \in Failures(check_data_ready_plan.txs) :
        LET p == check_data_ready_plan
            t == Issue(p.txs, f[1], f[2])
        IN
        /\ pc' = "idle"
        /\ IF f[1] # 0
           THEN /\ log' = Tag("wait_data_ready", t)
                /\ result' = Err("wait_data_ready", <<>>, f[2])
           ELSE IF p.val
           THEN /\ log' = Tag("wait_data_ready", t)
                /\ result' = Ok("wait_data_ready", <<>>, <<>>)
           ELSE /\ log' = Tag("wait_data_ready", t \o << Sleep(5000) >>)
                /\ result' = Ok("wait_data_ready", <<>>, <<>>)
        /\ UNCHANGED <<checked, regs, gpio, config, range_offset, attempts, steps>>

\* One turn of the loop of wait_data_ready: check_data_ready()?, then return
\* when ready, or sleep 5 ms and go round.  `log` holds the transactions of
\* the latest turn.
WaitTurn ==
    \E f \in Failures(check_data_ready_plan.txs) :
        LET p == check_data_ready_plan
            t == Issue(p.txs, f[1], f[2])
        IN
        /\ IF f[1] # 0
           THEN /\ log' = Tag("wait_data_ready", t)
                /\ pc' = "idle"
                /\ result' = Err("wait_data_ready", <<>>, f[2])
           ELSE IF p.val
           THEN /\ log' = Tag("wait_data_ready", t)
                /\ pc' = "idle"
                /\ result' = Ok("wait_data_ready", <<>>, <<>>)
           ELSE /\ log' = Tag("wait_data_ready", t \o << Sleep(5000) >>)
                /\ pc' = "wait_data_ready"
                /\ result' = NoResult
        /\ UNCHANGED <<checked, regs, gpio, config, range_offset, attempts, steps>>

\* The call, with the first turn of its loop.
WaitDataReady == pc = "idle" /\ calls' = calls + 1 /\ WaitTurn

\* A later turn of the loop.
WaitDataReadyLoop == pc = "wait_data_ready" /\ UNCHANGED calls /\ WaitTurn

\* The hardware sets and clears the data-ready status on its own.
SensorUpdate ==
    /\ pc \in {"idle", "wait_data_ready"}
    /\ gpio' \in GpioValues \ {gpio}
    /\ UNCHANGED <<pc, checked, regs, config, range_offset, attempts, steps,
                   log, result, calls>>

\* The caller is done with what the last call returned.
DropResult ==
    /\ pc = "idle"
    /\ result.op # "none"
    /\ result' = NoResult
    /\ log' = <<>>
    /\ UNCHANGED <<pc, checked, regs, gpio, config, range_offset, attempts, steps,
                   calls>>

\* Values of the result registers.
Distances == {0, 500, 65535}
SignalRates == {99, 100, 20000, 20001}

U16Bytes(v) == << Shr(v, 8), BitAnd(v, 255) >>

read_u16_plan(addr, v) == Plan(i2c_read_u16(addr, U16Bytes(v)), ReadU16BE(U16Bytes(v)))

ReadDistance ==
    \E v \in Distances :
        Calls("read_distance", <<>>,
              read_u16_plan(ResultFinalCrosstalkCorrectedRangeMmSd0, v))

ReadSignalRate ==
    \E v \in SignalRates :
        Calls("read_signal_rate", <<>>,
              read_u16_plan(ResultPeakSignalCountRateCrosstalkCorrectedMcpsSd0, v))

\* The if / else if / else of read_sample.  ovf: distance + range_offset
\* does not fit a u16, val then holds the wrapped sum.
Corrected(distance, signal_rate, offset) ==
    IF distance = 0 /\ signal_rate > 20000
    THEN [val |-> << "TooClose" >>, ovf |-> FALSE]
    ELSE IF signal_rate < 100
    THEN [val |-> << "TooFar" >>, ovf |-> FALSE]
    ELSE [val |-> << "Ok", U16(distance + offset) >>,
          ovf |-> ~InU16(distance + offset)]

\* read_sample as read_distance followed by read_signal_rate.
read_sample_two_reads(buf4) ==
    LET distance == ReadU16BE(SubSeq(buf4, 1, 2))
        signal_rate == ReadU16BE(SubSeq(buf4, 3, 4))
        c == Corrected(distance, signal_rate, range_offset)
        txs == i2c_read_u16(ResultFinalCrosstalkCorrectedRangeMmSd0,
                            SubSeq(buf4, 1, 2))
               \o i2c_read_u16(ResultPeakSignalCountRateCrosstalkCorrectedMcpsSd0,
                               SubSeq(buf4, 3, 4))
    IN  IF c.ovf /\ checked
        THEN PanicAfter(txs, "attempt to add with overflow")
        ELSE Plan(txs, [distance |-> distance, signal_rate |-> signal_rate,
                        corrected |-> c.val])

\* buf4 = [0u8; 6]: six bytes are read, the first four are used.
read_sample_plan(buf4) ==
    LET distance == ReadU16BE(SubSeq(buf4, 1, 2))
        signal_rate == ReadU16BE(SubSeq(buf4, 3, 4))
        c == Corrected(distance, signal_rate, range_offset)
        txs == << W(addr_to_bytes(ResultFinalCrosstalkCorrectedRangeMmSd0)),
                  R(buf4) >>
    IN  IF c.ovf /\ checked
        THEN PanicAfter(txs, "attempt to add with overflow")
        ELSE Plan(txs, [distance |-> distance, signal_rate |-> signal_rate,
                        corrected |-> c.val])

ReadSample ==
    \E d \in Distances, s \in SignalRates :
        Calls("read_sample", <<>>,
              read_sample_plan(U16Bytes(d) \o U16Bytes(s) \o << 0, 0 >>))

\* The match with values of its own for Long.
ModeValuesLongDiffers(mode) ==
    CASE mode = "Short" ->
           [period_a |-> 7, period_b |-> 5, phase_high |-> 56, phase_init |-> 6]
      [] mode = "Mid" ->
           [period_a |-> 15, period_b |-> 13, phase_high |-> 184, phase_init |-> 14]
      [] mode = "Long" ->
           [period_a |-> 15, period_b |-> 13, phase_high |-> 184, phase_init |-> 10]

\* match mode { ... }
ModeValues(mode) ==
    CASE mode = "Short" ->
           [period_a |-> 7, period_b |-> 5, phase_high |-> 56, phase_init |-> 6]
      [] mode = "Mid" ->
           [period_a |-> 15, period_b |-> 13, phase_high |-> 184, phase_init |-> 14]
      [] mode = "Long" ->
           [period_a |-> 15, period_b |-> 13, phase_high |-> 184, phase_init |-> 14]

\* write_distance_mode without its last write.
write_distance_mode_six(mode) ==
    LET m == ModeValues(mode) IN
    Plan(i2c_write_u8(RangeConfigVcselPeriodA, m.period_a)
         \o i2c_write_u8(RangeConfigVcselPeriodB, m.period_b)
         \o i2c_write_u8(RangeConfigValidPhaseHigh, m.phase_high)
         \o i2c_write_u8(SdConfigWoiSd0, m.period_a)
         \o i2c_write_u8(SdConfigWoiSd1, m.period_b)
         \o i2c_write_u8(SdConfigInitialPhaseSd0, m.phase_init),
         <<>>)

write_distance_mode_plan(mode) ==
    LET m == ModeValues(mode) IN
    Plan(i2c_write_u8(RangeConfigVcselPeriodA, m.period_a)
         \o i2c_write_u8(RangeConfigVcselPeriodB, m.period_b)
         \o i2c_write_u8(RangeConfigValidPhaseHigh, m.phase_high)
         \o i2c_write_u8(SdConfigWoiSd0, m.period_a)
         \o i2c_write_u8(SdConfigWoiSd1, m.period_b)
         \o i2c_write_u8(SdConfigInitialPhaseSd0, m.phase_init)
         \o i2c_write_u8(SdConfigInitialPhaseSd1, m.phase_init),
         <<>>)

DistanceModes == {"Short", "Mid", "Long"}

WriteDistanceMode ==
    \E mode \in DistanceModes :
        Calls("write_distance_mode", << mode >>, write_distance_mode_plan(mode))

----------------------------------------------------------------------------
(* ROI geometry, in u8 arithmetic.  Every operator returns the wrapped     *)
(* value and ovf: some addition or subtraction left 0..255.                *)

\* row and col of get_user_roi
DecodeCenter(center) ==
    IF center > 127
    THEN [row |-> 8 + BitAnd(255 - center, 7), col |-> Shr(center - 128, 3)]
    ELSE [row |-> BitAnd(center, 7), col |-> Shr(127 - center, 3)]

\* ((2*col - width) >> 1, (2*row - height) >> 1, (2*col + width) >> 1,
\*  (2*row + height) >> 1)
RoiOf(row, col, width, height) ==
    LET c2 == 2 * col
        r2 == 2 * row
        x0 == U8(c2) - width
        y0 == U8(r2) - height
        x1 == U8(c2) + width
        y1 == U8(r2) + height
    IN  [val |-> << Shr(U8(x0), 1), Shr(U8(y0), 1), Shr(U8(x1), 1), Shr(U8(y1), 1) >>,
         ovf |-> \E v \in {c2, r2, x0, y0, x1, y1} : ~InU8(v)]

\* The rectangle get_user_roi computes from the centre byte and the size byte.
DecodedRoi(center, dimensions) ==
    LET rc == DecodeCenter(center)
        height == Shr(dimensions, 4)
        width == BitAnd(dimensions, 15)
    IN  RoiOf(rc.row, rc.col, width, height)

get_user_roi_plan ==
    LET b1 == RegRead(regs, RoiConfigUserRoiCentreSpad, Buf1Len)
        b2 == RegRead(regs, RoiConfigUserRoiRequestedGlobalXySize, Buf1Len)
        roi == DecodedRoi(b1[1], b2[1])
        txs == i2c_read_u8(RoiConfigUserRoiCentreSpad, b1)
               \o i2c_read_u8(RoiConfigUserRoiRequestedGlobalXySize, b2)
    IN  IF roi.ovf /\ checked
        THEN PanicAfter(txs, "attempt to subtract with overflow")
        ELSE Plan(txs, roi.val)

GetUserRoi ==
    Calls("get_user_roi", <<>>, get_user_roi_plan)

\* (height << 4) + width
DimsByte(width, height) ==
    LET d == Shl8(height, 4) + width
    IN  [val |-> U8(d), ovf |-> ~InU8(d)]

set_zone_size_plan(width, height) ==
    LET d == DimsByte(width, height) IN
    IF d.ovf /\ checked
    THEN PanicAfter(<<>>, "attempt to add with overflow")
    ELSE Plan(i2c_write_u8(RoiConfigUserRoiRequestedGlobalXySize, d.val), <<>>)

\* 128 + (center_x << 3) + (15 - center_y)   or   ((15 - center_x) << 3) + center_y
CenterByte(center_x, center_y) ==
    IF center_y > 7
    THEN LET a == 128 + Shl8(center_x, 3)
             b == 15 - center_y
             c == U8(a) + U8(b)
         IN  [val |-> U8(c), ovf |-> ~InU8(a) \/ ~InU8(b) \/ ~InU8(c)]
    ELSE LET a == 15 - center_x
             c == Shl8(U8(a), 3) + center_y
         IN  [val |-> U8(c), ovf |-> ~InU8(a) \/ ~InU8(c)]

set_center_plan(center_x, center_y) ==
    LET c == CenterByte(center_x, center_y) IN
    IF c.ovf /\ checked
    THEN PanicAfter(<<>>, "arithmetic overflow")
    ELSE Plan(i2c_write_u8(RoiConfigUserRoiCentreSpad, c.val), <<>>)

\* RoiParams with the midpoints rounded down: (a + b) / 2.
RoiParamsRoundDown(roi) ==
    LET sx == roi[1] + roi[3]
        sy == roi[2] + roi[4]
        w == roi[3] - roi[1]
        h == roi[4] - roi[2]
    IN  [center_x |-> U8(sx) \div 2, center_y |-> U8(sy) \div 2,
         width |-> U8(w), height |-> U8(h),
         ovf |-> \E v \in {sx, sy, w, h} : ~InU8(v)]

\* center_x, center_y, width, height of set_user_roi
RoiParams(roi) ==
    LET sx == roi[1] + roi[3]
        sx1 == U8(sx) + 1
        sy == roi[2] + roi[4]
        sy1 == U8(sy) + 1
        w == roi[3] - roi[1]
        h == roi[4] - roi[2]
    IN  [center_x |-> U8(sx1) \div 2, center_y |-> U8(sy1) \div 2,
         width |-> U8(w), height |-> U8(h),
         ovf |-> \E v \in {sx, sx1, sy, sy1, w, h} : ~InU8(v)]

\* width < 3 || height < 3
RoiTooSmall(width, height) == width < 3 \/ height < 3

set_user_roi_plan(roi) ==
    LET p == RoiParams(roi)
        c == set_center_plan(p.center_x, p.center_y)
        z == set_zone_size_plan(p.width, p.height)
    IN  IF p.ovf /\ checked
        THEN PanicAfter(<<>>, "arithmetic overflow")
        ELSE IF RoiTooSmall(p.width, p.height)
        THEN PanicAfter(<<>>, "Width and height must be at least 4.")
        ELSE IF c.panic
        THEN c
        ELSE [txs |-> c.txs \o z.txs, panic |-> z.panic, val |-> z.val]

\* Arguments tried on a handle in use.
ZoneSizes == { <<4, 4>>, <<16, 15>>, <<3, 16>> }
Centers == { <<8, 8>>, <<0, 0>>, <<31, 8>>, <<16, 0>> }
Rois == { <<4, 4, 11, 11>>, <<0, 0, 3, 4>>, <<0, 0, 2, 0>>, <<5, 0, 2, 5>>,
          <<200, 200, 255, 255>> }

\* The last row and column of the 16 x 16 grid: 15 - center_y, 15 - center_x.
GridMax == 15

\* Rectangles drawn for the ROI functions.
GridRois == (0..MaxCoord) \X (0..MaxCoord) \X (0..MaxCoord) \X (0..MaxCoord)

SetZoneSize ==
    \E a \in ZoneSizes :
        Calls("set_zone_size", a, set_zone_size_plan(a[1], a[2]))

SetCenter ==
    \E a \in Centers :
        Calls("set_center", a, set_center_plan(a[1], a[2]))

SetUserRoi(S) ==
    \E roi \in S :
        Calls("set_user_roi", roi, set_user_roi_plan(roi))

----------------------------------------------------------------------------
(* The driver in use: bring-up, then public operations on the handle.      *)

\* The caller may call: it holds no result of an earlier call.
Ready == calls < MaxCalls /\ result.op = "none"

Next ==
    \/ New
    \/ CheckModelId
    \/ SoftReset
    \/ WaitForFirmwareStatusReady
    \/ WriteI2c28v
    \/ GetTrimResistors
    \/ DropResult
    \/ Ready /\ SensorUpdate
    \/ Ready /\ StartMeasurement
    \/ Ready /\ CheckDataReady
    \/ Ready /\ WaitDataReady
    \/ WaitDataReadyLoop
    \/ pc = "wait_data_ready" /\ SensorUpdate
    \/ Ready /\ ReadDistance
    \/ Ready /\ ReadSignalRate
    \/ Ready /\ ReadSample
    \/ Ready /\ WriteDistanceMode
    \/ Ready /\ GetUserRoi
    \/ Ready /\ SetZoneSize
    \/ Ready /\ SetCenter
    \/ Ready /\ SetUserRoi(Rois)

Spec == Init /\ [][Next]_vars

\* The loop of wait_data_ready runs in the caller's thread, which sleeps and
\* goes round: a turn that stays possible is taken.
LiveSpec == Spec /\ WF_vars(WaitDataReadyLoop)

----------------------------------------------------------------------------
(* The ROI functions on every rectangle of the grid: set_user_roi on a     *)
(* handle fresh from `new`, then get_user_roi once it has returned Ok.     *)

\* A handle as `new` returns it, for a sensor with the documented defaults.
FreshHandle ==
    LET img == [a \in 0..RegTop |-> IF a = 0 THEN 0 ELSE CONFIG[a]]
        r1 == Store(img, soft_reset_txs)
        r2 == Store(r1, write_i2c_28v_txs(RegRead(r1, PadI2cHvExtsupConfig, Buf2Len)))
        t == get_trim_resistors_txs(r2)
    IN  /\ pc = "idle"
        /\ regs = r2
        /\ gpio = 3
        /\ config = TrimmedConfig(CONFIG, t)
        /\ range_offset = 130
        /\ attempts = 0
        /\ steps = BringUpOrder
        /\ log = Tag("get_trim_resistors", t)
        /\ result = Ok("new", <<>>, <<>>)
        /\ calls = 0

InitRoi == checked \in BOOLEAN /\ FreshHandle

NextRoi ==
    \/ calls = 0 /\ SetUserRoi(GridRois)
    \/ calls = 1 /\ result.kind = "ok" /\ GetUserRoi

SpecRoi == InitRoi /\ [][NextRoi]_vars

\* Configuration calls followed by measurements on a fresh handle whose
\* sensor holds the defaults: set_user_roi and write_distance_mode, then
\* start_measurement, check_data_ready, read_sample, get_user_roi, in any
\* order, MaxPersistCalls calls in all.
PersistRois == {<<4, 4, 11, 11>>, <<0, 0, 3, 4>>}

ReadyPersist == calls < MaxPersistCalls /\ result.op = "none"

InitPersist == checked \in BOOLEAN /\ FreshHandle

NextPersist ==
    \/ DropResult
    \/ ReadyPersist /\ SetUserRoi(PersistRois)
    \/ ReadyPersist /\ WriteDistanceMode
    \/ ReadyPersist /\ StartMeasurement
    \/ ReadyPersist /\ CheckDataReady
    \/ ReadyPersist /\ ReadSample
    \/ ReadyPersist /\ GetUserRoi

SpecPersist == InitPersist /\ [][NextPersist]_vars

----------------------------------------------------------------------------
(* The claims.                                                             *)

\* A rectangle of the grid that set_user_roi accepts: all four coordinates in
\* 0..15, width and height (bottom-right minus top-left) at least 3.
ValidRoi(roi) ==
    /\ \A i \in 1..4 : roi[i] \in 0..GridMax
    /\ roi[3] - roi[1] >= 3
    /\ roi[4] - roi[2] >= 3

\* The call that just returned issued all its transactions and none failed.
Completed(op, n) ==
    /\ result.op = op
    /\ Len(log) = n
    /\ \A i \in 1..n : log[i].st = "ok"

\* C1: set_user_roi(rect) followed by get_user_roi returns exactly rect, for
\* every rect with coordinates in 0..15 and width, height >= 3, and no step of
\* either computation leaves the range of a u8: once set_user_roi(rect) has
\* been called, it did not panic, its arithmetic did not overflow, the bytes it
\* wrote decode without overflow, and a get_user_roi that then completes
\* returns Ok(rect).
C1_RoiRoundTrip ==
    [][ (result.op = "set_user_roi" /\ ValidRoi(result.arg)) =>
          LET p == RoiParams(result.arg) IN
          /\ result.kind # "panic"
          /\ ~p.ovf
          /\ ~CenterByte(p.center_x, p.center_y).ovf
          /\ ~DimsByte(p.width, p.height).ovf
          /\ result.kind = "ok" =>
               /\ Completed("set_user_roi", 2)
               /\ ~DecodedRoi(log[1].data[3], log[2].data[3]).ovf
               /\ (result'.op = "get_user_roi" /\ result'.kind # "err") =>
                    /\ result'.kind = "ok"
                    /\ result'.val.get_user_roi = result.arg
                    /\ log'[2].data[1] = log[1].data[3]
                    /\ log'[4].data[1] = log[2].data[3]
      ]_vars

\* C1 witness: a rectangle of odd width and height came back from
\* get_user_roi, in a build with overflow checks.
C1_Witness ==
    /\ checked
    /\ calls = 2
    /\ Completed("get_user_roi", 4)
    /\ result.kind = "ok"
    /\ result.val.get_user_roi = <<1, 2, 6, 15>>

\* C2: set_user_roi on a rectangle whose width or height is below 3, the
\* bottom-right coordinate possibly smaller than the top-left one, is rejected
\* and issues no bus write.
C2_SmallRoiRejected ==
    (/\ result.op = "set_user_roi"
     /\ \A i \in 1..4 : result.arg[i] \in 0..GridMax
     /\ (result.arg[3] - result.arg[1] < 3 \/ result.arg[4] - result.arg[2] < 3))
    => (result.kind = "panic" /\ log = <<>>)

\* C3: read_sample classifies the pair read: TooClose exactly when distance = 0
\* and signal_rate > 20000, otherwise TooFar exactly when signal_rate < 100,
\* otherwise Ok(distance + range_offset); the raw fields are the values read.
C3_SampleClassified ==
    Completed("read_sample", 2) =>
        LET distance == ReadU16BE(SubSeq(log[2].data, 1, 2))
            signal_rate == ReadU16BE(SubSeq(log[2].data, 3, 4))
        IN  /\ result.kind = "ok"
            /\ result.val.read_sample.distance = distance
            /\ result.val.read_sample.signal_rate = signal_rate
            /\ result.val.read_sample.corrected =
                 IF distance = 0 /\ signal_rate > 20000 THEN << "TooClose" >>
                 ELSE IF signal_rate < 100 THEN << "TooFar" >>
                 ELSE << "Ok", distance + range_offset >>

IsPrefix(s, t) == Len(s) <= Len(t) /\ s = SubSeq(t, 1, Len(s))

BringUpSteps == {BringUpOrder[i] : i \in DOMAIN BringUpOrder}

\* The transaction tx is a write of exactly these bytes.
IsWrite(tx, bytes) == tx.t = "w" /\ tx.data = bytes
IsRead(tx) == tx.t = "r"
IsSleep(tx, us) == tx.t = "sleep" /\ tx.n = us

\* What each bring-up step may have on the bus, transaction by transaction.
StepShape(by, l) ==
    CASE by = "check_model_id" ->
           /\ Len(l) <= 2
           /\ IsWrite(l[1], <<1, 15>>)
           /\ Len(l) = 2 => IsRead(l[2])
      [] by = "soft_reset" ->
           /\ Len(l) <= 4
           /\ IsWrite(l[1], <<0, 0, 0>>)
           /\ Len(l) >= 2 => IsSleep(l[2], 100)
           /\ Len(l) >= 3 => IsWrite(l[3], <<0, 0, 1>>)
           /\ Len(l) >= 4 => IsSleep(l[4], 200)
      [] by = "wait_for_firmware_status_ready" ->
           \A i \in DOMAIN l :
               CASE i % 3 = 1 -> IsWrite(l[i], <<0, 229>>)
                 [] i % 3 = 2 -> IsRead(l[i])
                 [] OTHER -> IsSleep(l[i], 10000)
      [] by = "write_i2c_28v" ->
           /\ Len(l) <= 3
           /\ IsWrite(l[1], <<0, 46>>)
           /\ Len(l) >= 2 => IsRead(l[2])
           /\ Len(l) >= 3 => l[3].t = "w" /\ l[3].n = 4
                             /\ SubSeq(l[3].data, 1, 2) = <<0, 46>>
      [] by = "get_trim_resistors" ->
           /\ Len(l) <= 72
           /\ \A i \in DOMAIN l :
                  IF i % 2 = 1 THEN IsWrite(l[i], <<0, (i + 1) \div 2>>)
                  ELSE IsRead(l[i])
      [] OTHER -> TRUE

\* The number of transactions of a step that returned Ok.
StepLength(by) ==
    CASE by = "check_model_id" -> 2
      [] by = "soft_reset" -> 4
      [] by = "write_i2c_28v" -> 3
      [] by = "get_trim_resistors" -> 72
      [] OTHER -> 0

\* C4: during construction the bus transactions occur in this order, none of
\* a later step before one of an earlier step: the model-ID read, the soft
\* reset (exactly two writes to the reset register, 0x00 then 0x01, a wait
\* after each), the firmware-status polls, the voltage-config read then write,
\* the 36 trim-register reads, which are the last transactions of construction.
C4_BringUpOrder ==
    /\ IsPrefix(steps, BringUpOrder)
    /\ pc \in BringUpSteps => pc = BringUpOrder[Len(steps) + 1]
    /\ pc \in {"idle", "wait_data_ready"} => steps = BringUpOrder
    /\ \A i \in DOMAIN log : log[i].by = log[1].by
    /\ (log # <<>> /\ log[1].by \in BringUpSteps) =>
          \E n \in DOMAIN BringUpOrder :
              /\ log[1].by = BringUpOrder[n]
              /\ n - 1 <= Len(steps)
              /\ Len(steps) <= n
              /\ StepShape(BringUpOrder[n], log)
              /\ (Len(steps) = n /\ StepLength(log[1].by) # 0) =>
                     Len(log) = StepLength(log[1].by)
              /\ Len(steps) = n =>
                     /\ \A i \in DOMAIN log : log[i].st = "ok"
                     /\ pc = IF n = 5 THEN "idle" ELSE BringUpOrder[n + 1]
    /\ (result.op = "new" /\ result.kind = "ok") =>
          /\ pc = "idle"
          /\ Len(log) = 72
          /\ log[72].by = "get_trim_resistors"

\* C4 witness: `new` has returned the handle, the 72 transactions of the trim
\* load being the last on the bus.
C4_Witness ==
    /\ result.op = "new"
    /\ result.kind = "ok"
    /\ steps = BringUpOrder
    /\ Len(log) = 72
    /\ log[72].by = "get_trim_resistors"

\* The position of the latest firmware-status read in the log of the wait.
LastPoll(l) == IF Len(l) % 3 = 2 THEN Len(l) ELSE Len(l) - 1

\* C5: a failing bring-up step aborts construction: after a model-ID other
\* than 0xEACC, a firmware that does not report ready, or a failed transaction,
\* no handle is produced and no transaction of a later step is issued.
C5_FailureAborts ==
    /\ [](/\ (/\ log # <<>>
              /\ log[1].by = "check_model_id"
              /\ Len(log) = 2
              /\ log[2].st = "ok"
              /\ ReadU16BE(log[2].data) # 60108)
             => (pc = "aborted" /\ steps = <<>>)
          /\ (/\ log # <<>>
              /\ log[1].by = "wait_for_firmware_status_ready"
              /\ Len(log) % 3 # 1
              /\ log[LastPoll(log)].st = "ok"
              /\ ReadU16BE(log[LastPoll(log)].data) % 2 = 1)
             => (/\ pc \in {"wait_for_firmware_status_ready", "aborted"}
                 /\ Len(steps) = 2)
          /\ \A i \in DOMAIN log :
                 (log[i].by \in BringUpSteps /\ log[i].st # "ok")
                 => (/\ pc = "failed"
                     /\ i = Len(log)
                     /\ steps = SubSeq(BringUpOrder, 1, Len(steps))
                     /\ log[i].by = BringUpOrder[Len(steps) + 1])
          /\ (result.op = "new" /\ result.kind \in {"err", "panic"})
             => (pc \in {"failed", "aborted"} /\ Len(steps) < 5))
    /\ [][~(pc \in {"failed", "aborted"} /\ result.op = "new")]_vars

\* C5 witness: the model-ID read returned another value and construction
\* stopped there.
C5_Witness ==
    /\ pc = "aborted"
    /\ result.op = "new"
    /\ Len(log) = 2
    /\ log[2].by = "check_model_id"
    /\ log[2].data = <<0, 0>>

\* C6: every start_measurement issues exactly one bulk write of 137 bytes, the
\* address prefix 0x00 0x01 followed by the 135-byte blob; no public operation
\* changes the blob or the range offset.
C6_StartPayload ==
    /\ [](result.op = "start_measurement" =>
            /\ Len(log) = 1
            /\ log[1].t = "w"
            /\ log[1].n = 137
            /\ Len(log[1].data) = 137
            /\ SubSeq(log[1].data, 1, 2) = <<0, 1>>
            /\ SubSeq(log[1].data, 3, 137) = config)
    /\ [][(pc \in {"idle", "wait_data_ready"}) =>
            (config' = config /\ range_offset' = range_offset)]_vars

\* C6 witness: a start_measurement that follows another operation, on a
\* handle whose trim values differ from the compiled-in defaults.
C6_Witness ==
    /\ Completed("start_measurement", 1)
    /\ result.kind = "ok"
    /\ calls = 2
    /\ config[1] # CONFIG[1]

SteadyOps ==
    {"start_measurement", "check_data_ready", "wait_data_ready", "read_distance",
     "read_signal_rate", "read_sample", "write_distance_mode", "get_user_roi",
     "set_user_roi", "set_zone_size", "set_center"}

\* C7: every steady-state operation returns a value or a communication error;
\* none aborts the process.
C7_NoAbort == result.op \in SteadyOps => result.kind # "panic"

\* C8: a failed transport write or read ends the operation: the failed
\* transaction is the last one issued, it is issued once, the operation
\* returns its error, and the writes issued before it stay applied.
C8_ErrorsPropagated ==
    /\ \A i \in DOMAIN log :
           log[i].st # "ok" =>
               /\ i = Len(log)
               /\ result.kind = "err"
               /\ result.val.err = log[i].st
               /\ result.op = IF log[i].by \in BringUpSteps THEN "new" ELSE log[i].by
    /\ (result.kind = "err" /\ log # <<>>) => log[Len(log)].st = result.val.err
    /\ (result.kind = "err" /\ log = <<>>) => (result.op = "new" /\ steps = <<>>)
    /\ \A i \in DOMAIN log :
           (/\ log[i].by \in {"write_distance_mode", "set_user_roi"}
            /\ log[i].st = "ok")
           => (/\ log[i].t = "w"
               /\ log[i].n = 3
               /\ regs[ReadU16BE(log[i].data)] = log[i].data[3])

\* C8 witness: the fourth write of write_distance_mode failed; three writes
\* are applied, three are unsent.
C8_Witness ==
    /\ result.op = "write_distance_mode"
    /\ result.kind = "err"
    /\ Len(log) = 4
    /\ log[4].st = "EIO"
    /\ regs[105] = 56

\* C9: check_data_ready reads the GPIO/status register once and reports ready
\* exactly when the low status bits (value & 0x03) differ from 0x03.
C9_ReadyLowBits ==
    (result.op = "check_data_ready" /\ result.kind = "ok") =>
        /\ Completed("check_data_ready", 2)
        /\ IsWrite(log[1], <<0, 49>>)
        /\ IsRead(log[2])
        /\ result.val.check_data_ready = (BitAnd(log[2].data[1], 3) # 3)

\* A turn of the loop of wait_data_ready.
IsWaitTurn ==
    /\ \/ pc = "wait_data_ready"
       \/ pc = "idle" /\ calls' = calls + 1
    /\ gpio' = gpio
    /\ log' # <<>>
    /\ log'[1].by = "wait_data_ready"

\* C10: wait_data_ready returns Ok only right after a poll that reported
\* ready; a poll that reports not-ready (and does not fail) is followed by a
\* sleep and another turn, however many came before; and once the sensor
\* reports ready for good, a waiting call returns Ok unless the transport
\* fails.
C10_WaitPolls ==
    /\ [][IsWaitTurn =>
            /\ IsWrite(log'[1], <<0, 49>>)
            /\ Len(log') >= 2 => IsRead(log'[2])
            /\ (Len(log') >= 2 /\ log'[2].st = "ok") => log'[2].data[1] = gpio
            /\ (result'.kind = "ok") =>
                  /\ Len(log') = 2
                  /\ log'[2].st = "ok"
                  /\ log'[2].data[1] # 3
                  /\ pc' = "idle"
            /\ (Len(log') >= 2 /\ log'[2].st = "ok" /\ log'[2].data[1] = 3) =>
                  /\ pc' = "wait_data_ready"
                  /\ result'.kind = "none"
                  /\ Len(log') = 3
                  /\ IsSleep(log'[3], 5000)
       ]_vars
    /\ [][(pc = "wait_data_ready" /\ pc' # "wait_data_ready") => IsWaitTurn]_vars
    /\ (<>[](gpio # 3) /\ [](result.kind # "err")) =>
          [](pc = "wait_data_ready" =>
               <>(/\ pc = "idle"
                  /\ result.op = "wait_data_ready"
                  /\ result.kind = "ok"))

\* C10 witness: a call is waiting after a poll that reported not-ready.
C10_Witness ==
    /\ pc = "wait_data_ready"
    /\ Len(log) = 3
    /\ log[2].data[1] = 3
    /\ log[3].t = "sleep"

\* C11: read_sample issues one address write (the distance result register)
\* and then one 6-byte read, nothing else; distance is bytes 0-1 and signal
\* rate bytes 2-3 of that one read, big-endian.
C11_SingleRead ==
    result.op = "read_sample" =>
        /\ Len(log) <= 2
        /\ IsWrite(log[1], <<0, 150>>)
        /\ Len(log) = 2 => (IsRead(log[2]) /\ log[2].n = 6)
        /\ result.kind # "err" => Completed("read_sample", 2)
        /\ result.kind = "ok" =>
              /\ Len(log[2].data) = 6
              /\ result.val.read_sample.distance =
                    256 * log[2].data[1] + log[2].data[2]
              /\ result.val.read_sample.signal_rate =
                    256 * log[2].data[3] + log[2].data[4]

\* C11 witness: a sample whose two values both come out of the one read.
C11_Witness ==
    /\ Completed("read_sample", 2)
    /\ result.kind = "ok"
    /\ log[2].data = <<1, 244, 78, 32, 0, 0>>
    /\ result.val.read_sample.distance = 500
    /\ result.val.read_sample.signal_rate = 20000

\* The register writes the distance-mode table prescribes: address (two
\* bytes, high first), then the value.
ModeTable(period_a, period_b, phase_high, phase_init) ==
    << <<0, 96, period_a>>, <<0, 99, period_b>>, <<0, 105, phase_high>>,
       <<0, 120, period_a>>, <<0, 121, period_b>>,
       <<0, 122, phase_init>>, <<0, 123, phase_init>> >>

\* C12: write_distance_mode(Short) programs period_a = 0x07, period_b = 0x05,
\* phase_high = 0x38, phase_init = 6; Mid and Long both program 0x0f, 0x0d,
\* 0xb8, 14, so their writes are the same; period_a goes to VCSEL period A and
\* the window of sub-device 0, period_b to VCSEL period B and the window of
\* sub-device 1, phase_high to valid-phase-high, phase_init to both
\* initial-phase registers.
C12_ModeTable ==
    (result.op = "write_distance_mode" /\ result.kind = "ok") =>
        [i \in DOMAIN log |-> log[i].data] =
            IF result.arg = << "Short" >>
            THEN ModeTable(7, 5, 56, 6)
            ELSE ModeTable(15, 13, 184, 14)

\* C12 witness: write_distance_mode(Long) has returned Ok.
C12_Witness ==
    /\ result.op = "write_distance_mode"
    /\ result.kind = "ok"
    /\ result.arg = << "Long" >>
    /\ regs[123] = 14

\* C13 as stated: a successful write_distance_mode performs exactly four bus
\* write transactions and no read.
C13_FourWrites ==
    (result.op = "write_distance_mode" /\ result.kind = "ok") =>
        /\ Len(log) = 4
        /\ \A i \in DOMAIN log : log[i].t = "w"

\* C13 amended: a successful write_distance_mode performs exactly seven bus
\* write transactions, one per register programmed, and no read.
C13_SevenWrites ==
    (result.op = "write_distance_mode" /\ result.kind = "ok") =>
        /\ Len(log) = 7
        /\ \A i \in DOMAIN log : log[i].t = "w" /\ log[i].st = "ok"
        /\ \A i, j \in DOMAIN log :
               i # j => SubSeq(log[i].data, 1, 2) # SubSeq(log[j].data, 1, 2)

\* C13 witness: write_distance_mode(Short) has returned Ok after its writes.
C13_Witness ==
    /\ result.op = "write_distance_mode"
    /\ result.kind = "ok"
    /\ result.arg = << "Short" >>
    /\ Len(log) = 7

\* The firmware-status reads among the transactions l of the wait.
StatusReads(l) == {i \in DOMAIN l : l[i].t = "r"}

\* C14: when every firmware-status read has bit 0 set and the transport does
\* not fail, the poll aborts after 100 attempts, that is after exactly 100
\* reads of the firmware-status register.
C14_TimeoutAfter100 ==
    (/\ pc = "aborted"
     /\ result.op = "new"
     /\ log # <<>>
     /\ log[1].by = "wait_for_firmware_status_ready")
    => Cardinality(StatusReads(log)) = 100

\* The transaction tx is a completed status read with bit 0 clear.
ReadyRead(tx) == tx.t = "r" /\ tx.st = "ok" /\ ReadU16BE(tx.data) % 2 = 0

\* C15: construction proceeds to the voltage-config step, and so returns a
\* handle, only if the most recent firmware-status read had bit 0 clear; the
\* poll stops at the first such read and issues no status read after it.
C15_FirmwareGate ==
    /\ [](/\ (/\ log # <<>>
              /\ log[1].by = "wait_for_firmware_status_ready"
              /\ Len(steps) >= 3)
             => (/\ ReadyRead(log[Len(log)])
                 /\ \A i \in StatusReads(log) \ {Len(log)} :
                        ReadU16BE(log[i].data) % 2 = 1)
          /\ (/\ log # <<>>
              /\ log[1].by = "wait_for_firmware_status_ready")
             => \A i \in StatusReads(log) : ReadyRead(log[i]) => i = Len(log)
          /\ pc \in {"write_i2c_28v", "get_trim_resistors", "idle",
                     "wait_data_ready"}
             => (Len(steps) >= 3 /\ steps[3] = "wait_for_firmware_status_ready"))
    /\ [][(pc' = "write_i2c_28v" /\ pc # "write_i2c_28v") =>
            /\ pc = "wait_for_firmware_status_ready"
            /\ log' # <<>>
            /\ log'[Len(log')].by = "wait_for_firmware_status_ready"
            /\ ReadyRead(log'[Len(log')])]_vars
    /\ [][(Len(steps') >= 3 /\ Len(steps) < 3) => pc' = "write_i2c_28v"]_vars

\* C15 witness: after one busy read, a read of 0x0102 let construction
\* proceed to the voltage-config step.
C15_Witness ==
    /\ pc = "write_i2c_28v"
    /\ Len(log) = 5
    /\ log[2].data = <<0, 1>>
    /\ log[5].data = <<1, 2>>

\* C16: after a successful construction, byte i of the blob, for i in 0..35,
\* is the value read from register address i + 1, every byte at index
\* 36..134 is the compiled-in default, and the blob is 135 bytes long.
C16_TrimLoad ==
    /\ (result.op = "new" /\ result.kind = "ok") =>
          /\ Len(log) = 72
          /\ \A i \in 0..35 :
                 /\ IsWrite(log[2 * i + 1], <<0, i + 1>>)
                 /\ IsRead(log[2 * i + 2])
                 /\ config[i + 1] = log[2 * i + 2].data[1]
                 /\ config[i + 1] = regs[i + 1]
    /\ pc \in {"idle", "wait_data_ready"} =>
          /\ Len(config) = 135
          /\ \A i \in 36..134 : config[i + 1] = CONFIG[i + 1]

\* C16 witness: a handle whose first 36 bytes were read from a sensor that
\* holds other values than the defaults.
C16_Witness ==
    /\ result.op = "new"
    /\ result.kind = "ok"
    /\ config[1] = 10
    /\ config[36] = 255
    /\ config[36] # CONFIG[36]

\* C17: the voltage configuration preserves adjacent bits: for every 16-bit
\* value v read from the voltage-config register, the value written back has
\* bit 0 set and bits 1..15 equal to those of v.
C17_VoltagePreservesBits ==
    (/\ Len(log) = 3
     /\ log[1].by = "write_i2c_28v")
    => LET v == ReadU16BE(log[2].data)
           written == ReadU16BE(SubSeq(log[3].data, 3, 4))
       IN  /\ written % 2 = 1
           /\ written \div 2 = v \div 2

\* The functions whose register reads go through i2c_read_u8, through
\* i2c_read_u16, and whose register writes go through i2c_write_u8.
ReadU8Callers ==
    {"get_trim_resistors", "check_data_ready", "wait_data_ready", "get_user_roi"}
ReadU16Callers == {"write_i2c_28v", "read_distance", "read_signal_rate"}
WriteU8Callers == {"write_distance_mode", "set_zone_size", "set_center", "set_user_roi"}

\* C18: write_u8 sends [a>>8, a&0xFF, val] and write_u16 sends
\* [a>>8, a&0xFF, val>>8, val&0xFF] as one write; read_u8 and read_u16 send
\* [a>>8, a&0xFF] as a write of its own and then issue one read of exactly
\* 1 byte (read_u8) or exactly 2 bytes (read_u16).
C18_WireFormat ==
    \A i \in DOMAIN log :
        /\ (log[i].by \in WriteU8Callers) =>
              (log[i].t = "w" /\ log[i].n = 3 /\ Len(log[i].data) = 3)
        /\ (log[i].by = "write_i2c_28v" /\ i = 3) =>
              (log[i].t = "w" /\ log[i].n = 4 /\ Len(log[i].data) = 4)
        /\ (log[i].by \in ReadU8Callers \cup ReadU16Callers /\ log[i].t = "r") =>
              (i > 1 /\ log[i - 1].t = "w" /\ log[i - 1].n = 2)
        /\ (log[i].by \in ReadU16Callers /\ log[i].t = "r") => log[i].n = 2
        /\ (log[i].by \in ReadU8Callers /\ log[i].t = "r") => log[i].n = 1

\* The registers set_user_roi and write_distance_mode write.
ConfiguredRegs == {127, 128, 96, 99, 105, 120, 121, 122, 123}

\* C19: the registers written by set_user_roi and by write_distance_mode keep
\* their values across later start_measurement, check_data_ready and
\* read_sample calls (a bulk write storing its payload at consecutive
\* addresses), so get_user_roi still returns the rectangle set.
C19_ConfigPersists ==
    [][(/\ calls' = calls + 1
        /\ result'.op \in {"start_measurement", "check_data_ready", "read_sample"})
       => \A a \in ConfiguredRegs : regs'[a] = regs[a]]_vars

\* C20: the corrected distance never wraps: whenever read_sample reports
\* Ok(v), v is the mathematical sum distance + range_offset, so v >= distance;
\* a sum above 65535 is never reduced modulo 2^16 into an Ok value.
C20_NoWrap ==
    (/\ Completed("read_sample", 2)
     /\ result.kind = "ok"
     /\ result.val.read_sample.corrected[1] = "Ok")
    => /\ result.val.read_sample.corrected[2] =
             result.val.read_sample.distance + range_offset
       /\ result.val.read_sample.corrected[2] >= result.val.read_sample.distance
====
